---- MODULE Spec2Model ----
(***************************************************************************)
(* A model of the voice-agent dashboard's API gateway (src/utils/api.ts)   *)
(* and of the widgets that call it.                                        *)
(*                                                                         *)
(* Text is modelled as a sequence of tokens (words, punctuation and the    *)
(* newline token NL); String.prototype.includes is the contiguous          *)
(* sub-sequence test on tokens.                                            *)
(***************************************************************************)
EXTENDS Integers, Sequences, FiniteSets, Bags, TLC

VARIABLES
  useMockData,  \* config.useMockData, read once into USE_MOCK
  mockAgents,   \* the mock agent map, as its entries in insertion order
  calls,        \* the bag of gateway calls awaiting their HTTP response
  settled,      \* the gateway call that settled last, and how
  mockTrail,    \* the last three calls made in mock mode, oldest first
  lastCallFor,  \* per user id, the last startAgent / stopAgent made in mock mode
  env,          \* process.env as the configuration resolver sees it
  config,       \* config.ts: the exported config object
  userIdProp,   \* Home: the user id handed to every widget
  userIdChanged, \* Home: the user id was edited since the page was mounted
  collections,  \* AgentControl: the collections offered in the start form
  agentRunning, \* AgentControl: the running flag
  isLoading,    \* AgentControl: the initial load is under way
  acResult,     \* AgentControl: the result banner (null or a record)
  acSubmitting, \* AgentControl: formState.isSubmitting of the start form
  acTasks,      \* AgentControl: the bag of handler runs awaiting the gateway
  agentsData,   \* AgentControl: the listAgents result of the last scan
  selectedFiles, \* DocumentUpload: the files held as selected
  fileNames,    \* FileInput: the file names it displays
  duResult,     \* DocumentUpload: the result banner (null or a record)
  duSubmitting, \* DocumentUpload: formState.isSubmitting
  duTasks,      \* DocumentUpload: the bag of uploads awaiting the gateway
  clCollections, \* CollectionsList: the collections it shows
  clLoading,    \* CollectionsList: the loading flag
  clError,      \* CollectionsList: the error text (null or a string)
  clTasks,      \* CollectionsList: the bag of loads awaiting the gateway
  clShownFor,   \* CollectionsList: the user id whose response was stored last
  error,        \* debugApiError: the failure object handed to it
  context,      \* debugApiError: the context argument
  debugInfo,    \* debugApiError: the returned diagnostic (NoText before the call)
  errorDebug    \* ErrorDebug: the flags of its last render

gwVars == <<useMockData, mockAgents, calls, settled, mockTrail, lastCallFor>>

cfgVars == <<env, config>>

dbgVars == <<error, context, debugInfo, errorDebug>>

acVars == <<userIdProp, userIdChanged, collections, agentRunning, isLoading,
            acResult, acSubmitting, acTasks, agentsData>>

duVars == <<selectedFiles, fileNames, duResult, duSubmitting, duTasks>>

clVars == <<clCollections, clLoading, clError, clTasks, clShownFor>>

vars == <<gwVars, cfgVars, dbgVars, acVars, duVars, clVars>>

----------------------------------------------------------------------------
(* Optional values (undefined / a value) *)

Absent == [has |-> FALSE]

Some(v) == [has |-> TRUE, val |-> v]

----------------------------------------------------------------------------
(* Text *)

NL == "\n"

RECURSIVE Flatten(_)
Flatten(parts) ==
  IF parts = <<>> THEN <<>> ELSE Head(parts) \o Flatten(Tail(parts))

\* String.prototype.includes: pat occurs in s as a contiguous run
Includes(s, pat) ==
  \E i \in 0..(Len(s) - Len(pat)) :
    \A j \in 1..Len(pat) : s[i + j] = pat[j]

\* a || b for an optional string: undefined and '' are falsy
OrElse(opt, dflt) ==
  IF opt.has /\ opt.val # <<>> THEN opt.val ELSE dflt

\* opt?.includes(pat): undefined (falsy) when opt is undefined
OptIncludes(opt, pat) == opt.has /\ Includes(opt.val, pat)

\* String.prototype.toUpperCase on the HTTP method names in use
ToUpperCase(s) ==
  [i \in 1..Len(s) |->
     CASE s[i] = "post" -> "POST"
       [] s[i] = "get" -> "GET"
       [] OTHER -> s[i]]

\* JSON.stringify(data, null, 2) of an object given as a sequence of
\* <<key, string value>> pairs: "{}" when empty, else one line per key
RECURSIVE JSONMembers(_)
JSONMembers(pairs) ==
  IF pairs = <<>> THEN <<>>
  ELSE <<"\"", Head(pairs)[1], "\"", ":", "\"">> \o Head(pairs)[2] \o <<"\"">>
       \o (IF Tail(pairs) = <<>> THEN <<>> ELSE <<",", NL>>)
       \o JSONMembers(Tail(pairs))

JSONStringify(data) ==
  IF data = <<>> THEN <<"{}">>
  ELSE <<"{", NL>> \o JSONMembers(data) \o <<NL, "}">>

\* Number -> string in a template literal
NumText(n) ==
  CASE n = 0 -> "0" [] n = 403 -> "403" [] n = 404 -> "404"
    [] n = 422 -> "422" [] n = 500 -> "500" [] OTHER -> "NaN"

----------------------------------------------------------------------------
(* Configuration: src/utils/config.ts *)

documentApiUrl == <<"http://51.20.138.127:8000">>

agentManagerApiUrl == <<"http://51.20.138.127:8001">>

\* process.env with nothing set
NoEnv ==
  [NEXT_PUBLIC_DOCUMENT_API_URL |-> Absent,
   NEXT_PUBLIC_AGENT_MANAGER_URL |-> Absent,
   NEXT_PUBLIC_USE_MOCK_DATA |-> Absent]

\* the object literal of config.ts 2-6: `process.env.X || literal` for the two
\* URLs, the literal false for useMockData
ResolveConfig(e) ==
  [documentApiUrl |-> OrElse(e.NEXT_PUBLIC_DOCUMENT_API_URL, documentApiUrl),
   agentManagerApiUrl |-> OrElse(e.NEXT_PUBLIC_AGENT_MANAGER_URL, agentManagerApiUrl),
   useMockData |-> FALSE]

\* the configuration of a page built with no environment override
ConfigIdle ==
  /\ env = NoEnv
  /\ config = ResolveConfig(NoEnv)

\* window.location.origin and navigator.userAgent of the page
windowOrigin == <<"http://localhost:3000">>

userAgent == <<"Mozilla/5.0">>

----------------------------------------------------------------------------
(* debugApiError: src/utils/api.ts 70-164 *)

ConnectionDetails(err) ==
  Flatten(<<
    <<NL, "Connection", "Details", ":", NL>>,
    <<"-", "API", "URL", ":">>,
    OrElse(IF err.config.has THEN err.config.val.baseURL ELSE Absent, <<"unknown">>),
    <<NL>>,
    <<"-", "Endpoint", ":">>,
    OrElse(IF err.config.has THEN err.config.val.url ELSE Absent, <<"unknown">>),
    <<NL>>,
    <<"-", "Method", ":">>,
    (IF err.config.has /\ err.config.val.method.has
        /\ ToUpperCase(err.config.val.method.val) # <<>>
       THEN ToUpperCase(err.config.val.method.val) ELSE <<"unknown">>),
    <<NL>> >>)

\* the detection with the 403 test left out
corsError_no403(err) ==
  \/ err.response.val.status = 0
  \/ OptIncludes(err.message, <<"CORS">>)
  \/ OptIncludes(err.message, <<"cross-origin">>)

\* the CORS detection of the server-response branch (lines 117-121)
corsError(err) ==
  \/ err.response.val.status = 0
  \/ err.response.val.status = 403
  \/ OptIncludes(err.message, <<"CORS">>)
  \/ OptIncludes(err.message, <<"cross-origin">>)

CorsMarkerLines ==
  Flatten(<<
    <<NL, "X", "CORS", "POLICY", "ERROR", "DETECTED", "!", NL>>,
    <<"The", "server", "is", "not", "allowing", "requests", "from">>,
    windowOrigin, <<".", NL>>,
    <<"Server", "needs", "to", "add", "this", "origin", "to", "its",
      "CORS", "allowed", "origins", "list", ".", NL>> >>)

ServerResponseSection(err) ==
  Flatten(<<
    <<NL, "Server", "Response", ":", NL>>,
    <<"-", "Status", ":", NumText(err.response.val.status)>>,
    OrElse(err.response.val.statusText, <<>>),
    <<NL>>,
    <<"-", "Response", "Data", ":">>,
    JSONStringify(err.response.val.data),
    <<NL>>,
    IF corsError(err) THEN CorsMarkerLines ELSE <<>> >>)

NetworkErrorSection(err) ==
  Flatten(<<
    <<NL, "Network", "Error", ":", NL>>,
    <<"-", "Type", ":", "Request", "sent", "but", "no", "response", "received", NL>>,
    <<"-", "Message", ":">>,
    OrElse(err.message, <<"Connection", "failed">>),
    <<NL>>,
    <<"-", "This", "usually", "indicates", "server", "is", "unreachable",
      "or", "down", NL>> >>)

RequestSetupSection(err) ==
  Flatten(<<
    <<NL, "Request", "Setup", "Error", ":", NL>>,
    <<"-", "Message", ":">>,
    OrElse(err.message, <<"Unknown", "error">>),
    <<NL>>,
    IF OptIncludes(err.message, <<"Network", "Error">>)
      THEN <<"-", "This", "appears", "to", "be", "a", "network",
             "connectivity", "issue", NL,
             "-", "Check", "if", "the", "API", "server", "is", "running",
             "and", "accessible", NL>>
      ELSE <<>> >>)

\* the branches with the request test left out
CategorySection_noRequest(err) ==
  IF err.response.has THEN ServerResponseSection(err)
  ELSE RequestSetupSection(err)

\* the branches with the request tested before the response
CategorySection_requestFirst(err) ==
  IF err.request THEN NetworkErrorSection(err)
  ELSE IF err.response.has THEN ServerResponseSection(err)
  ELSE RequestSetupSection(err)

\* the if / else-if / else of lines 103-153
CategorySection(err) ==
  IF err.response.has THEN ServerResponseSection(err)
  ELSE IF err.request THEN NetworkErrorSection(err)
  ELSE RequestSetupSection(err)

EnvironmentInfo ==
  Flatten(<<
    <<NL, "Environment", "Info", ":", NL>>,
    <<"-", "Frontend", "URL", ":">>, windowOrigin, <<NL>>,
    <<"-", "Document", "API", ":">>, config.documentApiUrl, <<NL>>,
    <<"-", "Agent", "Manager", "API", ":">>, config.agentManagerApiUrl, <<NL>>,
    <<"-", "Browser", ":">>, userAgent, <<NL>> >>)

debugApiError(err, ctx) ==
  Flatten(<<
    <<"API", "Error", "in">>, ctx, <<NL>>,
    ConnectionDetails(err),
    CategorySection(err),
    EnvironmentInfo >>)


----------------------------------------------------------------------------
(* JavaScript values of the optional string arguments *)

Undefined == [t |-> "undefined"]

Null == [t |-> "null"]

Str(s) == [t |-> "string", s |-> s]

\* the truthiness test of `v ? a : b` and `v || b`
Truthy(v) == v.t = "string" /\ v.s # ""

\* a parameter default `p = d` applies to undefined only
DefaultArg(v, d) == IF v = Undefined THEN d ELSE v

\* an object literal is a sequence of <<key, value>> entries
HasKey(obj, k) == \E i \in 1..Len(obj) : obj[i][1] = k

ValueOf(obj, k) == obj[CHOOSE i \in 1..Len(obj) : obj[i][1] = k][2]

----------------------------------------------------------------------------
(* Bounds and input sets of the gateway *)

MaxInFlight == 1

UserIds == {"", "test_user"}

\* Home: useState<string>('test_user')
InitialUserId == "test_user"

FileLists == { <<>>, <<"a.pdf", "b.txt">> }

UploadCollectionNames == { Undefined, Str("Docs") }

AgentConfigs ==
  { [system_prompt |-> "You are a helpful assistant.", voice |-> "alloy",
     model |-> "gpt-4o-mini", agent_name |-> "Assistant"],
    [system_prompt |-> "Be brief.", voice |-> "nova",
     model |-> "gpt-4o", agent_name |-> ""] }

OptionalStrings(s) == { Undefined, Null, Str(""), Str(s) }

AgentTypeArgs == { Undefined, Str("voice"), Str("web") }

\* Date.now()
Clock == {1000}

----------------------------------------------------------------------------
(* Mock data: src/utils/api.ts 43-67 *)

mockCollections ==
  << [name |-> "Default Collection", path |-> "/collections/default",
      is_default |-> TRUE],
     [name |-> "Product Documentation", path |-> "/collections/products",
      is_default |-> FALSE],
     [name |-> "Customer Support", path |-> "/collections/support",
      is_default |-> FALSE] >>

\* delete obj[key] on the entries of the map
RECURSIVE DeleteKey(_, _)
DeleteKey(entries, key) ==
  IF entries = <<>> THEN <<>>
  ELSE IF Head(entries).user_id = key THEN DeleteKey(Tail(entries), key)
  ELSE <<Head(entries)>> \o DeleteKey(Tail(entries), key)

\* obj[key] = value: an existing key keeps its place, a new one goes last
SetKey(entries, key, value) ==
  IF \E i \in 1..Len(entries) : entries[i].user_id = key
    THEN [i \in 1..Len(entries) |->
            IF entries[i].user_id = key THEN value ELSE entries[i]]
    ELSE Append(entries, value)

----------------------------------------------------------------------------
(* The two HTTP clients and their request interceptors: api.ts 16-41 *)

\* only one of the two clients gets the interceptor
RequestInterceptorRejects_documentOnly(client) ==
  useMockData /\ client = "documentApi"

\* in mock mode both clients reject every request before it is sent
RequestInterceptorRejects(client) == useMockData

\* axios.create({ baseURL: config.documentApiUrl | config.agentManagerApiUrl })
BaseURL(client) ==
  IF client = "documentApi" THEN config.documentApiUrl
  ELSE config.agentManagerApiUrl

\* the rejection of the mock interceptor: a plain Error('Using mock data')
InterceptorError ==
  [response |-> Absent, request |-> FALSE,
   message |-> Some(<<"Using", "mock", "data">>), config |-> Absent]

ConfigOf(req) ==
  Some([baseURL |-> Some(BaseURL(req.client)), url |-> Some(req.url),
        method |-> Some(<<req.method>>)])

\* the failures the HTTP client reports for a request
HttpStatusFailures(req) ==
  { [response |-> Some([status |-> st, statusText |-> Absent,
                        data |-> << <<"detail", <<"Not", "allowed">> >> >>]),
     request |-> TRUE,
     message |-> Some(<<"Request", "failed", "with", "status", "code">>),
     config |-> ConfigOf(req)] : st \in {403, 500} }

NoResponseFailure(req) ==
  [response |-> Absent, request |-> TRUE,
   message |-> Some(<<"Network", "Error">>), config |-> ConfigOf(req)]

SetupFailure(req) ==
  [response |-> Absent, request |-> FALSE,
   message |-> Some(<<"timeout", "exceeded">>), config |-> ConfigOf(req)]

ResponseFailures(req) == HttpStatusFailures(req) \cup {NoResponseFailure(req)}

\* the bodies of the 2xx responses of the two services
SuccessBodies(op) ==
  CASE op = "uploadDocuments" ->
         { [status |-> "success", message |-> "processed",
            document_count |-> 2, index_id |-> "idx_9"] }
    [] op = "configureAgent" ->
         { [status |-> "success", message |-> "Configuration saved"],
           [status |-> "ok", message |-> ""] }
    [] op = "listCollections" ->
         { [collections |-> <<>>],
           [collections |-> <<[name |-> "Docs", path |-> "/c/docs",
                               is_default |-> TRUE]>>] }
    [] op \in {"startAgent", "testStartAgent"} ->
         { [status |-> "success", user_id |-> "test_user", container_id |-> "c1"],
           [status |-> "already_running", user_id |-> "test_user"] }
    [] op = "stopAgent" ->
         { [status |-> "success", user_id |-> "test_user"] }
    [] op = "listAgents" ->
         { [agents |-> <<>>],
           [agents |-> <<[user_id |-> "test_user", agent_type |-> "voice",
                          running_time |-> 12]>>] }

\* the context string each operation hands to debugApiError
ContextOf(op) ==
  CASE op = "uploadDocuments" -> <<"Document", "Upload">>
    [] op = "configureAgent" -> <<"Agent", "Configuration">>
    [] op = "listCollections" -> <<"List", "Collections">>
    [] op = "startAgent" -> <<"Start", "Agent">>
    [] op = "stopAgent" -> <<"Stop", "Agent">>
    [] op = "listAgents" -> <<"List", "Agents">>
    [] op = "testStartAgent" -> <<"API", "Test">>

----------------------------------------------------------------------------
(* Outcomes of a gateway call *)

Resolved(value) == [kind |-> "resolved", value |-> value]

Rejected(message) == [kind |-> "rejected", message |-> message]

NoReply == [kind |-> "none"]

NoneSettled == [has |-> FALSE]

NoText == <<"(none)">>

NoCall == [op |-> "none"]

\* the failure is swallowed and an empty default returned
Catch_default(op, failure) == Resolved(<<>>)

\* catch (error) { debugInfo = debugApiError(error, ctx); throw new Error(debugInfo) }
Catch(op, failure) == Rejected(debugApiError(failure, ContextOf(op)))

\* return response.data
ReturnData(response) == Resolved(response)

\* no startAgent or stopAgent was made yet for any user id
NoneYet == [u \in UserIds |-> [op |-> "none"]]

\* the history of startAgent and stopAgent calls, kept in mock mode
NoteCall(userId, entry) ==
  IF useMockData THEN [lastCallFor EXCEPT ![userId] = entry] ELSE lastCallFor

PushTrail(entry) ==
  IF useMockData THEN <<mockTrail[2], mockTrail[3], entry>> ELSE mockTrail

\* the `if (USE_MOCK) return Promise.resolve(value)` branch
Serve(op, value) ==
  /\ settled' = [has |-> TRUE, op |-> op, attempts |-> 0, reply |-> NoReply,
                 outcome |-> Resolved(value)]
  /\ calls' = calls

\* the try block: the request is handed to the client, which rejects it in an
\* interceptor, fails before sending it, or sends it
Try(op, userId, args, req) ==
  IF RequestInterceptorRejects(req.client)
    THEN /\ settled' = [has |-> TRUE, op |-> op, attempts |-> 1,
                        reply |-> [kind |-> "failure", failure |-> InterceptorError],
                        outcome |-> Catch(op, InterceptorError)]
         /\ calls' = calls
    ELSE \/ /\ calls' = calls (+) SetToBag({[op |-> op, userId |-> userId,
                                              args |-> args, request |-> req,
                                              attempts |-> 1]})
            /\ settled' = settled
         \/ /\ settled' = [has |-> TRUE, op |-> op, attempts |-> 1,
                           reply |-> [kind |-> "failure", failure |-> SetupFailure(req)],
                           outcome |-> Catch(op, SetupFailure(req))]
            /\ calls' = calls

CanCall == useMockData \/ BagCardinality(calls) < MaxInFlight

----------------------------------------------------------------------------
(* The parts of the system a specification leaves at rest *)

NullResult == [isNull |-> TRUE]

NoAgentsData == [has |-> FALSE]

NotRendered == [rendered |-> FALSE]

GatewayIdle ==
  /\ useMockData = FALSE
  /\ mockAgents = <<>>
  /\ calls = EmptyBag
  /\ settled = NoneSettled
  /\ mockTrail = <<NoCall, NoCall, NoCall>>
  /\ lastCallFor = NoneYet

DebugIdle ==
  /\ error = InterceptorError
  /\ context = <<"API", "Test">>
  /\ debugInfo = NoText
  /\ errorDebug = NotRendered

ControlIdle ==
  /\ userIdProp = InitialUserId
  /\ userIdChanged = FALSE
  /\ collections = <<>>
  /\ agentRunning = FALSE
  /\ isLoading = TRUE
  /\ acResult = NullResult
  /\ acSubmitting = FALSE
  /\ acTasks = EmptyBag
  /\ agentsData = NoAgentsData

\* CollectionsList before its first load: CollectionsList.tsx 6-8
CollectionsIdle ==
  /\ clCollections = <<>>
  /\ clLoading = TRUE
  /\ clError = Null
  /\ clTasks = EmptyBag
  /\ clShownFor = Undefined

\* DocumentUpload and FileInput as mounted: part_002 351-353, part_003 12
UploadInit ==
  /\ selectedFiles = <<>>
  /\ fileNames = <<>>
  /\ duResult = NullResult
  /\ duSubmitting = FALSE
  /\ duTasks = EmptyBag

----------------------------------------------------------------------------
(* uploadDocuments: api.ts 167-211 *)

FormData(files, collectionName) ==
  [i \in 1..Len(files) |-> <<"files", files[i]>>]
  \o (IF Truthy(collectionName)
        THEN << <<"collection_name", collectionName.s>> >> ELSE <<>>)

UploadRequest(userId, files, collectionName) ==
  [client |-> "documentApi", method |-> "post", url |-> <<"/upload/", userId>>,
   body |-> FormData(files, collectionName),
   contentType |-> "multipart/form-data"]

MockUploadResponse(userId, files) ==
  [status |-> "success",
   message |-> "Documents uploaded and processed successfully",
   document_count |-> Len(files),
   index_id |-> <<userId, "_index_123">>]

uploadDocuments(userId, files, collectionName) ==
  /\ CanCall
  /\ IF useMockData
       THEN Serve("uploadDocuments", MockUploadResponse(userId, files))
       ELSE Try("uploadDocuments", userId,
                [files |-> files, collectionName |-> collectionName],
                UploadRequest(userId, files, collectionName))
  /\ mockTrail' = PushTrail([op |-> "uploadDocuments", userId |-> userId])
  /\ UNCHANGED <<useMockData, mockAgents, lastCallFor>>

----------------------------------------------------------------------------
(* configureAgent: api.ts 213-235 *)

\* the config is wrapped instead of being sent as the body
ConfigRequest_wrapped(userId, cfg) ==
  [client |-> "documentApi", method |-> "post", url |-> <<"/config/", userId>>,
   body |-> [config |-> cfg], contentType |-> "application/json"]

ConfigRequest(userId, cfg) ==
  [client |-> "documentApi", method |-> "post", url |-> <<"/config/", userId>>,
   body |-> cfg, contentType |-> "application/json"]

MockConfigResponse ==
  [status |-> "success", message |-> "Agent configuration updated successfully"]

configureAgent(userId, cfg) ==
  /\ CanCall
  /\ IF useMockData
       THEN Serve("configureAgent", MockConfigResponse)
       ELSE Try("configureAgent", userId, [config |-> cfg],
                ConfigRequest(userId, cfg))
  /\ mockTrail' = PushTrail([op |-> "configureAgent", userId |-> userId])
  /\ UNCHANGED <<useMockData, mockAgents, lastCallFor>>

----------------------------------------------------------------------------
(* listCollections: api.ts 237-255 *)

CollectionsRequest(userId) ==
  [client |-> "documentApi", method |-> "get", url |-> <<"/collections/", userId>>,
   body |-> Absent, contentType |-> "application/json"]

listCollections(userId) ==
  /\ CanCall
  /\ IF useMockData
       THEN Serve("listCollections", [collections |-> mockCollections])
       ELSE Try("listCollections", userId, [none |-> TRUE],
                CollectionsRequest(userId))
  /\ mockTrail' = PushTrail([op |-> "listCollections", userId |-> userId])
  /\ UNCHANGED <<useMockData, mockAgents, lastCallFor>>

----------------------------------------------------------------------------
(* startAgent: api.ts 258-300 *)

\* absent optional fields are sent as they came instead of being left out
StartAgentPayload_sendsAll(userId, collectionName, phoneNumber, agentType) ==
  << <<"user_id", Str(userId)>>,
     <<"collection_name", collectionName>>,
     <<"phone_number", phoneNumber>>,
     <<"agent_type", agentType>> >>

\* the payload literal of lines 281-287, with its conditional spreads
StartAgentPayload(userId, collectionName, phoneNumber, agentType) ==
  << <<"user_id", Str(userId)>> >>
  \o (IF Truthy(collectionName)
        THEN << <<"collection_name", collectionName>> >> ELSE <<>>)
  \o (IF Truthy(phoneNumber)
        THEN << <<"phone_number", phoneNumber>> >> ELSE <<>>)
  \o << <<"agent_type", agentType>> >>

StartRequest(payload) ==
  [client |-> "agentManagerApi", method |-> "post", url |-> <<"/start-agent">>,
   body |-> payload, contentType |-> "application/json"]

\* the agent type handed in is dropped
MockAgent_alwaysVoice(userId, agentType) ==
  [user_id |-> userId, agent_type |-> "voice", running_time |-> 0]

\* { user_id: userId, agent_type: agentType, running_time: 0 }
MockAgent(userId, agentType) ==
  [user_id |-> userId, agent_type |-> agentType, running_time |-> 0]

MockStartResponse(userId, now) ==
  [status |-> "success", user_id |-> userId,
   container_id |-> <<"container_", userId, "_", now>>]

startAgent(userId, collectionName, phoneNumber, agentTypeArg, now) ==
  LET agentType == DefaultArg(agentTypeArg, Str("voice")) IN
  /\ CanCall
  /\ IF useMockData
       THEN /\ mockAgents' = SetKey(mockAgents, userId, MockAgent(userId, agentType.s))
            /\ Serve("startAgent", MockStartResponse(userId, now))
       ELSE /\ Try("startAgent", userId,
                   [collectionName |-> collectionName, phoneNumber |-> phoneNumber,
                    agentType |-> agentTypeArg],
                   StartRequest(StartAgentPayload(userId, collectionName,
                                                  phoneNumber, agentType)))
            /\ mockAgents' = mockAgents
  /\ mockTrail' = PushTrail([op |-> "startAgent", userId |-> userId])
  /\ lastCallFor' = NoteCall(userId, [op |-> "startAgent", agentType |-> agentType.s])
  /\ UNCHANGED useMockData

----------------------------------------------------------------------------
(* stopAgent: api.ts 302-325 *)

StopRequest(userId) ==
  [client |-> "agentManagerApi", method |-> "post",
   url |-> <<"/stop-agent/", userId>>, body |-> Absent,
   contentType |-> "application/json"]

\* the entry is left in the map
MockStop_keeps(entries, userId) == entries

\* the whole map is reset
MockStop_clearsAll(entries, userId) == <<>>

\* delete mockAgents[userId]
MockStop(entries, userId) == DeleteKey(entries, userId)

stopAgent(userId) ==
  /\ CanCall
  /\ IF useMockData
       THEN /\ mockAgents' = MockStop(mockAgents, userId)
            /\ Serve("stopAgent", [status |-> "success", user_id |-> userId])
       ELSE /\ Try("stopAgent", userId, [none |-> TRUE], StopRequest(userId))
            /\ mockAgents' = mockAgents
  /\ mockTrail' = PushTrail([op |-> "stopAgent", userId |-> userId])
  /\ lastCallFor' = NoteCall(userId, [op |-> "stopAgent"])
  /\ UNCHANGED useMockData

----------------------------------------------------------------------------
(* listAgents: api.ts 327-346 *)

AgentsRequest ==
  [client |-> "agentManagerApi", method |-> "get", url |-> <<"/agents">>,
   body |-> Absent, contentType |-> "application/json"]

\* Object.values(mockAgents)
ObjectValues(entries) == entries

listAgents ==
  /\ CanCall
  /\ IF useMockData
       THEN Serve("listAgents", [agents |-> ObjectValues(mockAgents)])
       ELSE Try("listAgents", "", [none |-> TRUE], AgentsRequest)
  /\ mockTrail' = PushTrail([op |-> "listAgents"])
  /\ UNCHANGED <<useMockData, mockAgents, lastCallFor>>

----------------------------------------------------------------------------
(* testStartAgent: api.ts 349-368; it has no mock branch *)

MinimalPayload(userId) ==
  << <<"user_id", Str(userId)>>, <<"agent_type", Str("voice")>> >>

testStartAgent(userId) ==
  /\ CanCall
  /\ Try("testStartAgent", userId, [none |-> TRUE],
         StartRequest(MinimalPayload(userId)))
  /\ mockTrail' = PushTrail([op |-> "testStartAgent", userId |-> userId])
  /\ UNCHANGED <<useMockData, mockAgents, lastCallFor>>

----------------------------------------------------------------------------
(* The HTTP response of a call in flight arrives and its await resumes *)

Settle(call, reply, outcome) ==
  /\ calls' = calls (-) SetToBag({call})
  /\ settled' = [has |-> TRUE, op |-> call.op, attempts |-> call.attempts,
                 reply |-> reply, outcome |-> outcome]
  /\ UNCHANGED <<useMockData, mockAgents, mockTrail, lastCallFor>>

\* a 2xx response: `return response.data`
ResponseOk ==
  \E call \in BagToSet(calls) : \E body \in SuccessBodies(call.op) :
    Settle(call, [kind |-> "success", data |-> body], ReturnData(body))

\* a non-2xx response or no response: the catch block
ResponseFailed ==
  \E call \in BagToSet(calls) : \E failure \in ResponseFailures(call.request) :
    Settle(call, [kind |-> "failure", failure |-> failure],
           Catch(call.op, failure))

----------------------------------------------------------------------------
(* The gateway *)

\* useMockData is the literal of config.ts line 5; both of its settings are
\* covered (false as committed, true as edited for an offline build), each
\* fixed for the life of the process
GatewayInit ==
  /\ useMockData \in BOOLEAN
  /\ env = NoEnv
  /\ config = [ResolveConfig(NoEnv) EXCEPT !.useMockData = useMockData]
  /\ mockAgents = <<>>
  /\ calls = EmptyBag
  /\ settled = NoneSettled
  /\ mockTrail = <<NoCall, NoCall, NoCall>>
  /\ lastCallFor = NoneYet

Init ==
  GatewayInit /\ DebugIdle /\ ControlIdle /\ UploadInit /\ CollectionsIdle

\* the calls the widgets and their users make, with their arguments
CallUploadDocuments ==
  /\ \E u \in UserIds, f \in FileLists, c \in UploadCollectionNames :
       uploadDocuments(u, f, c)
  /\ UNCHANGED <<cfgVars, dbgVars, acVars, duVars, clVars>>

CallConfigureAgent ==
  /\ \E u \in UserIds, cfg \in AgentConfigs : configureAgent(u, cfg)
  /\ UNCHANGED <<cfgVars, dbgVars, acVars, duVars, clVars>>

CallListCollections ==
  /\ \E u \in UserIds : listCollections(u)
  /\ UNCHANGED <<cfgVars, dbgVars, acVars, duVars, clVars>>

CallStartAgent ==
  /\ \E u \in UserIds, c \in {Null, Str("Docs")},
        ph \in {Undefined, Str("+1234567890")}, t \in AgentTypeArgs, now \in Clock :
       startAgent(u, c, ph, t, now)
  /\ UNCHANGED <<cfgVars, dbgVars, acVars, duVars, clVars>>

CallStopAgent ==
  /\ \E u \in UserIds : stopAgent(u)
  /\ UNCHANGED <<cfgVars, dbgVars, acVars, duVars, clVars>>

CallListAgents == listAgents /\ UNCHANGED <<cfgVars, dbgVars, acVars, duVars, clVars>>

CallTestStartAgent ==
  /\ \E u \in UserIds : testStartAgent(u)
  /\ UNCHANGED <<cfgVars, dbgVars, acVars, duVars, clVars>>

HttpResponseOk == ResponseOk /\ UNCHANGED <<cfgVars, dbgVars, acVars, duVars, clVars>>

HttpResponseFailed == ResponseFailed /\ UNCHANGED <<cfgVars, dbgVars, acVars, duVars, clVars>>

Next ==
  \/ CallUploadDocuments
  \/ CallConfigureAgent
  \/ CallListCollections
  \/ CallStartAgent
  \/ CallStopAgent
  \/ CallListAgents
  \/ CallTestStartAgent
  \/ HttpResponseOk
  \/ HttpResponseFailed

Spec == Init /\ [][Next]_vars

\* startAgent alone, with every shape of its optional arguments
CallStartAgentAny ==
  /\ \E u \in UserIds, c \in OptionalStrings("Docs"),
        ph \in OptionalStrings("+1234567890"), t \in AgentTypeArgs, now \in Clock :
       startAgent(u, c, ph, t, now)
  /\ UNCHANGED <<cfgVars, dbgVars, acVars, duVars, clVars>>

NextStart == CallStartAgentAny \/ HttpResponseOk \/ HttpResponseFailed

SpecStart == Init /\ [][NextStart]_vars

----------------------------------------------------------------------------
(* Properties of the gateway *)

GatewayOps ==
  {"uploadDocuments", "configureAgent", "listCollections", "startAgent",
   "stopAgent", "listAgents"}

InFlight == BagToSet(calls)

\* C1: in mock mode no request of any exported operation reaches the
\* network, and each of the six gateway operations resolves, never rejects,
\* with a value made from local data only (no client call, no HTTP reply),
\* whatever calls came before.
C1_MockOffline ==
  useMockData =>
    /\ calls = EmptyBag
    /\ (settled.has /\ settled.op \in GatewayOps) =>
         /\ settled.outcome.kind = "resolved"
         /\ settled.reply = NoReply
         /\ settled.attempts = 0
         /\ (settled.op = "listCollections" =>
               settled.outcome.value = [collections |-> mockCollections])
         /\ (settled.op = "listAgents" =>
               settled.outcome.value = [agents |-> mockAgents])

C1_Witness ==
  /\ useMockData
  /\ mockTrail[1].op = "testStartAgent"
  /\ mockTrail[2].op = "startAgent"
  /\ settled.has
  /\ settled.op = "listAgents"
  /\ settled.outcome.kind = "resolved"
  /\ Len(settled.outcome.value.agents) = 1

\* C3: in mock mode, when the last three calls are startAgent(u),
\* stopAgent(u), listAgents(), the list returned holds no descriptor whose
\* user_id is u, whatever calls came before.
C3_StartStopList ==
  (/\ useMockData
   /\ mockTrail[1].op = "startAgent"
   /\ mockTrail[2].op = "stopAgent"
   /\ mockTrail[2].userId = mockTrail[1].userId
   /\ mockTrail[3].op = "listAgents") =>
    /\ settled.has
    /\ settled.op = "listAgents"
    /\ settled.outcome.kind = "resolved"
    /\ \A i \in 1..Len(settled.outcome.value.agents) :
         settled.outcome.value.agents[i].user_id # mockTrail[1].userId

C3_Witness ==
  /\ useMockData
  /\ mockTrail[1] = [op |-> "startAgent", userId |-> "test_user"]
  /\ mockTrail[2] = [op |-> "stopAgent", userId |-> "test_user"]
  /\ mockTrail[3].op = "listAgents"
  /\ settled.outcome.kind = "resolved"
  /\ Len(settled.outcome.value.agents) = 1
  /\ settled.outcome.value.agents[1].user_id = ""

\* C4: in live mode each of the six gateway operations whose HTTP call
\* failed rejects with an Error whose message is debugApiError's diagnostic
\* of that failure; none resolves after a failure, and none hands the
\* client a second request for the same call.
C4_FailurePropagates ==
  ~useMockData =>
    /\ \A call \in InFlight : call.attempts = 1
    /\ (settled.has /\ settled.op \in GatewayOps /\ settled.reply.kind = "failure") =>
         /\ settled.outcome =
              [kind |-> "rejected",
               message |-> debugApiError(settled.reply.failure,
                                         ContextOf(settled.op))]
         /\ settled.attempts = 1

C4_Witness ==
  /\ ~useMockData
  /\ settled.has
  /\ settled.op = "listAgents"
  /\ settled.reply.kind = "failure"
  /\ settled.reply.failure.response.has
  /\ settled.reply.failure.response.val.status = 403
  /\ settled.outcome.kind = "rejected"
  /\ Includes(settled.outcome.message, <<"List", "Agents">>)

\* C8: in live mode configureAgent hands the document service one POST to
\* /config/{userId} whose body is the submitted config unchanged, and on a
\* 2xx response resolves with the response body unchanged.
C8_ConfigVerbatim ==
  ~useMockData =>
    /\ \A call \in InFlight :
         call.op = "configureAgent" =>
           /\ call.request.client = "documentApi"
           /\ call.request.method = "post"
           /\ call.request.url = <<"/config/", call.userId>>
           /\ call.request.body = call.args.config
           /\ call.attempts = 1
    /\ (settled.has /\ settled.op = "configureAgent"
          /\ settled.reply.kind = "success") =>
         settled.outcome = [kind |-> "resolved", value |-> settled.reply.data]

C8_Witness ==
  /\ ~useMockData
  /\ settled.has
  /\ settled.op = "configureAgent"
  /\ settled.reply.kind = "success"
  /\ settled.outcome.kind = "resolved"
  /\ settled.outcome.value.status = "ok"
  /\ \E call \in InFlight :
       /\ call.op = "configureAgent"
       /\ call.userId = "test_user"
       /\ call.request.body.voice = "nova"

AbsentValues == {Undefined, Null, Str("")}

\* C2: for every pair of collectionName and phoneNumber drawn from
\* undefined, null, '' and a non-empty string, the payload startAgent posts
\* to /start-agent has the key collection_name (phone_number) iff the value
\* is a non-empty string, never carries null, undefined or '' under either
\* key, and always has user_id and agent_type.
C2_PayloadKeys ==
  \A call \in InFlight :
    call.op = "startAgent" =>
      LET payload == call.request.body IN
      /\ call.request.url = <<"/start-agent">>
      /\ call.request.method = "post"
      /\ HasKey(payload, "collection_name")
           <=> (call.args.collectionName \notin AbsentValues)
      /\ HasKey(payload, "phone_number")
           <=> (call.args.phoneNumber \notin AbsentValues)
      /\ \A i \in 1..Len(payload) :
           payload[i][1] \in {"collection_name", "phone_number"} =>
             payload[i][2] \notin AbsentValues
      /\ HasKey(payload, "collection_name") =>
           ValueOf(payload, "collection_name") = call.args.collectionName
      /\ HasKey(payload, "phone_number") =>
           ValueOf(payload, "phone_number") = call.args.phoneNumber
      /\ HasKey(payload, "user_id")
      /\ HasKey(payload, "agent_type")

C2_Witness ==
  \E call \in InFlight :
    /\ call.op = "startAgent"
    /\ call.args.collectionName = Str("")
    /\ call.args.phoneNumber = Str("+1234567890")
    /\ ~HasKey(call.request.body, "collection_name")
    /\ HasKey(call.request.body, "phone_number")

----------------------------------------------------------------------------
(* Configuration as resolved when the page starts: config.ts, api.ts 12-30 *)

\* a URL variable of the environment: not set, set to '', set to a URL
DocumentUrlSettings == { Absent, Some(<<>>), Some(<<"https://docs.example.com">>) }

AgentUrlSettings == { Absent, Some(<<>>), Some(<<"https://agents.example.com">>) }

\* the mock-mode flag of the environment: not set, or a boolean
MockFlagSettings == { Absent, Some(TRUE), Some(FALSE) }

Envs ==
  [NEXT_PUBLIC_DOCUMENT_API_URL : DocumentUrlSettings,
   NEXT_PUBLIC_AGENT_MANAGER_URL : AgentUrlSettings,
   NEXT_PUBLIC_USE_MOCK_DATA : MockFlagSettings]

\* the modules are loaded: config.ts builds config, api.ts reads USE_MOCK
\* from it and creates the two clients
ConfigSpecInit ==
  /\ env \in Envs
  /\ config = ResolveConfig(env)
  /\ useMockData = config.useMockData
  /\ mockAgents = <<>>
  /\ calls = EmptyBag
  /\ settled = NoneSettled
  /\ mockTrail = <<NoCall, NoCall, NoCall>>
  /\ lastCallFor = NoneYet
  /\ DebugIdle /\ ControlIdle /\ UploadInit /\ CollectionsIdle

ConfigNext ==
  \/ CallListCollections
  \/ CallStopAgent
  \/ CallListAgents
  \/ HttpResponseOk
  \/ HttpResponseFailed

SpecConfig == ConfigSpecInit /\ [][ConfigNext]_vars

\* an environment variable holds a value
IsSet(setting) == setting.has /\ setting.val # <<>>

\* the value the claim gives a URL: the environment's when set, else the literal
Overridden(setting, literal) == IF IsSet(setting) THEN setting.val ELSE literal

ServiceOf(op) ==
  IF op \in {"uploadDocuments", "configureAgent", "listCollections"}
    THEN "documentApi" ELSE "agentManagerApi"

\* C13: each of documentApiUrl, agentManagerApiUrl and useMockData has the
\* value the environment provides when it provides one and its literal
\* fallback otherwise, and the gateway (its mock switch, the base URL of
\* each request it hands to a client) uses that value at all times.
C13_ConfigFromEnv ==
  LET doc == Overridden(env.NEXT_PUBLIC_DOCUMENT_API_URL, documentApiUrl)
      mgr == Overridden(env.NEXT_PUBLIC_AGENT_MANAGER_URL, agentManagerApiUrl)
      mock == IF env.NEXT_PUBLIC_USE_MOCK_DATA.has
                THEN env.NEXT_PUBLIC_USE_MOCK_DATA.val ELSE FALSE
  IN
  /\ config = [documentApiUrl |-> doc, agentManagerApiUrl |-> mgr,
               useMockData |-> mock]
  /\ useMockData = mock
  /\ BaseURL("documentApi") = doc
  /\ BaseURL("agentManagerApi") = mgr
  /\ (settled.has /\ settled.reply.kind = "failure"
        /\ settled.reply.failure.config.has) =>
       settled.reply.failure.config.val.baseURL =
         Some(IF ServiceOf(settled.op) = "documentApi" THEN doc ELSE mgr)

\* the part of C13 that concerns the two URLs
UrlsFromEnv ==
  /\ config.documentApiUrl =
       Overridden(env.NEXT_PUBLIC_DOCUMENT_API_URL, documentApiUrl)
  /\ config.agentManagerApiUrl =
       Overridden(env.NEXT_PUBLIC_AGENT_MANAGER_URL, agentManagerApiUrl)
  /\ useMockData = FALSE

\* an agent is recorded for the user id in the mock map
Recorded(entries, userId) ==
  \E i \in 1..Len(entries) : entries[i].user_id = userId

\* C11: stopAgent is forwarded whatever was called before: in live mode
\* every stopAgent(u) hands the agent manager one POST /stop-agent/u (or
\* fails before sending it), and in mock mode a stopAgent(u) made while no
\* agent is recorded for u (a second stop in a row included) resolves with
\* status 'success' for u and leaves the mock agent map exactly as it was.
C11_StopIdempotent ==
  [][\A u \in UserIds :
       stopAgent(u) =>
         /\ ~useMockData =>
              \/ /\ BagCardinality(calls') = BagCardinality(calls) + 1
                 /\ \E call \in BagToSet(calls') :
                      /\ call.op = "stopAgent"
                      /\ call.userId = u
                      /\ call.request = StopRequest(u)
                      /\ call.attempts = 1
                      /\ CopiesIn(call, calls') = CopiesIn(call, calls) + 1
              \/ /\ calls' = calls
                 /\ settled'.op = "stopAgent"
                 /\ settled'.attempts = 1
                 /\ settled'.outcome.kind = "rejected"
         /\ (useMockData /\ ~Recorded(mockAgents, u)) =>
              /\ settled'.op = "stopAgent"
              /\ settled'.outcome =
                   Resolved([status |-> "success", user_id |-> u])
              /\ mockAgents' = mockAgents]_vars

C11_Witness ==
  /\ useMockData
  /\ mockTrail[2] = [op |-> "stopAgent", userId |-> "test_user"]
  /\ mockTrail[3] = [op |-> "stopAgent", userId |-> "test_user"]
  /\ settled.has
  /\ settled.op = "stopAgent"
  /\ settled.outcome = Resolved([status |-> "success", user_id |-> "test_user"])
  /\ Len(mockAgents) = 1
  /\ mockAgents[1].user_id = ""

\* the descriptors a list holds for a user id
RECURSIVE DescriptorsFor(_, _)
DescriptorsFor(agents, u) ==
  IF agents = <<>> THEN <<>>
  ELSE (IF Head(agents).user_id = u THEN <<Head(agents)>> ELSE <<>>)
       \o DescriptorsFor(Tail(agents), u)

\* the list holds for u what the history of calls says: one descriptor with
\* the agent type of the last startAgent(u) when that was the last call for
\* u, none when it was a stopAgent(u) or there was no call
AsLastCalled(agents, history, u) ==
  LET ds == DescriptorsFor(agents, u) IN
  IF history[u].op = "startAgent"
    THEN /\ Len(ds) = 1
         /\ ds[1].user_id = u
         /\ ds[1].agent_type = history[u].agentType
    ELSE ds = <<>>

\* C12: in mock mode, after any calls, listAgents returns exactly one
\* descriptor for each user id whose most recent startAgent / stopAgent call
\* was a startAgent, carrying that user id and that call's agent_type, and
\* none for any other user id; and no call changes the map's entry of a user
\* id other than the one a startAgent or stopAgent was made for.
C12_MockLifecycle ==
  [][useMockData =>
       /\ (mockTrail'[3].op = "listAgents") =>
            /\ settled'.op = "listAgents"
            /\ settled'.outcome.kind = "resolved"
            /\ \A u \in UserIds :
                 AsLastCalled(settled'.outcome.value.agents, lastCallFor', u)
            /\ \A i \in 1..Len(settled'.outcome.value.agents) :
                 settled'.outcome.value.agents[i].user_id \in UserIds
       /\ \A v \in UserIds :
            ~(/\ mockTrail'[3].op \in {"startAgent", "stopAgent"}
              /\ mockTrail'[3].userId = v) =>
              DescriptorsFor(mockAgents', v) = DescriptorsFor(mockAgents, v)]_vars

C12_Witness ==
  /\ useMockData
  /\ mockTrail[3].op = "listAgents"
  /\ lastCallFor[""].op = "stopAgent"
  /\ lastCallFor["test_user"] = [op |-> "startAgent", agentType |-> "web"]
  /\ mockTrail[1] = [op |-> "startAgent", userId |-> "test_user"]
  /\ mockTrail[2] = [op |-> "stopAgent", userId |-> ""]
  /\ settled.outcome.kind = "resolved"
  /\ Len(settled.outcome.value.agents) = 1
  /\ settled.outcome.value.agents[1].agent_type = "web"

----------------------------------------------------------------------------
(* What the gateway hands back to a widget *)

MaxAgents == 2

MaxTasks == 2

SeqsUpTo(S, n) == UNION { [1..k -> S] : k \in 0..n }

AgentDescriptors ==
  { [user_id |-> u, agent_type |-> "voice", running_time |-> 5] : u \in UserIds }

\* the agent lists a listAgents call may resolve with
AgentLists == SeqsUpTo(AgentDescriptors, MaxAgents)

CollectionLists == { <<>>, mockCollections }

\* the Error a gateway operation throws: its message is the diagnostic
GatewayError(op, req) ==
  [message |-> debugApiError(NoResponseFailure(req), ContextOf(op))]

\* JSON.stringify of a string: quoted, newlines escaped
JSONString(text) ==
  <<"\"">> \o [i \in 1..Len(text) |-> IF text[i] = NL THEN "\\n" ELSE text[i]]
  \o <<"\"">>

----------------------------------------------------------------------------
(* AgentControl: the initial load, part_002 128-150 *)

\* Array.prototype.find: the first element that matches, else undefined
RECURSIVE Find(_, _)
Find(agents, uid) ==
  IF agents = <<>> THEN Undefined
  ELSE IF Head(agents).user_id = uid THEN Head(agents)
  ELSE Find(Tail(agents), uid)

\* only the first descriptor of the list is looked at
UserAgent_firstOnly(agents, uid) ==
  IF agents # <<>> /\ Head(agents).user_id = uid THEN Head(agents) ELSE Undefined

\* agentsData.agents.find(agent => agent.user_id === userId)
UserAgent(agents, uid) == Find(agents, uid)

\* Boolean(value) of an object or undefined
ToBoolean(v) == v # Undefined

AddTask(task) == acTasks' = acTasks (+) SetToBag({task})

DropTask(task) == acTasks' = acTasks (-) SetToBag({task})

ReplaceTask(task, by) ==
  acTasks' = (acTasks (-) SetToBag({task})) (+) SetToBag({by})

\* the effect of lines 128-150 up to its first await
FetchDataStart(uid) ==
  /\ isLoading' = TRUE
  /\ AddTask([kind |-> "fetchData", userId |-> uid, awaiting |-> "listCollections"])

\* Home.handleUserIdChange: the new user id re-runs the effect
ChangeUserId(uid) ==
  /\ uid # userIdProp
  /\ BagCardinality(acTasks) < MaxTasks
  /\ userIdProp' = uid
  /\ userIdChanged' = TRUE
  /\ FetchDataStart(uid)
  /\ UNCHANGED <<collections, agentRunning, acResult, acSubmitting, agentsData>>

\* listCollections resolved: lines 134-137
FetchCollectionsResolved(task, data) ==
  /\ task.kind = "fetchData" /\ task.awaiting = "listCollections"
  /\ collections' = data.collections
  /\ ReplaceTask(task, [task EXCEPT !.awaiting = "listAgents"])
  /\ UNCHANGED <<userIdProp, userIdChanged, agentRunning, isLoading, acResult, acSubmitting, agentsData>>

\* listAgents resolved: lines 138-139, then the finally block
FetchAgentsResolved(task, data) ==
  /\ task.kind = "fetchData" /\ task.awaiting = "listAgents"
  /\ agentRunning' = ToBoolean(UserAgent(data.agents, task.userId))
  /\ agentsData' = [has |-> TRUE, agents |-> data.agents, userId |-> task.userId]
  /\ isLoading' = FALSE
  /\ DropTask(task)
  /\ UNCHANGED <<userIdProp, userIdChanged, collections, acResult, acSubmitting>>

\* either call rejected: the catch block logs, the finally block runs
FetchRejected(task) ==
  /\ task.kind = "fetchData"
  /\ isLoading' = FALSE
  /\ DropTask(task)
  /\ UNCHANGED <<userIdProp, userIdChanged, collections, agentRunning, acResult, acSubmitting, agentsData>>

----------------------------------------------------------------------------
(* AgentControl: start, stop and the test button, part_002 152-206, 319-333 *)

\* a result's message is text: a literal is one token
Banner(success, message) ==
  [isNull |-> FALSE, loading |-> FALSE, success |-> success,
   message |-> <<message>>]

LoadingBanner(message) ==
  [isNull |-> FALSE, loading |-> TRUE, message |-> <<message>>]

ErrorBanner(message, err) ==
  [isNull |-> FALSE, loading |-> FALSE, success |-> FALSE,
   message |-> <<message>>, errorDetails |-> JSONString(err.message)]

StartFormShown == ~isLoading /\ ~agentRunning

StopButtonShown == ~isLoading /\ agentRunning

\* onStartAgent up to its await (the form's submit button is enabled)
OnStartAgent ==
  /\ StartFormShown /\ ~acSubmitting
  /\ BagCardinality(acTasks) < MaxTasks
  /\ acResult' = LoadingBanner("Starting agent...")
  /\ acSubmitting' = TRUE
  /\ AddTask([kind |-> "onStartAgent", userId |-> userIdProp, awaiting |-> "startAgent"])
  /\ UNCHANGED <<userIdProp, userIdChanged, collections, agentRunning, isLoading, agentsData>>

StartResolved(task, data) ==
  /\ task.kind = "onStartAgent"
  /\ acResult' = Banner(TRUE, IF data.status = "already_running"
                                THEN "Agent is already running"
                                ELSE "Agent started successfully")
  /\ agentRunning' = TRUE
  /\ agentsData' = NoAgentsData
  /\ acSubmitting' = FALSE
  /\ DropTask(task)
  /\ UNCHANGED <<userIdProp, userIdChanged, collections, isLoading>>

StartRejected(task) ==
  /\ task.kind = "onStartAgent"
  /\ acResult' = ErrorBanner("Error starting agent",
                   GatewayError("startAgent",
                     StartRequest(StartAgentPayload(task.userId, Null, Null,
                                                    Str("voice")))))
  /\ acSubmitting' = FALSE
  /\ DropTask(task)
  /\ UNCHANGED <<userIdProp, userIdChanged, collections, agentRunning, isLoading, agentsData>>

\* onStopAgent up to its await
OnStopAgent ==
  /\ StopButtonShown /\ ~acSubmitting
  /\ BagCardinality(acTasks) < MaxTasks
  /\ acResult' = LoadingBanner("Stopping agent...")
  /\ AddTask([kind |-> "onStopAgent", userId |-> userIdProp, awaiting |-> "stopAgent"])
  /\ UNCHANGED <<userIdProp, userIdChanged, collections, agentRunning, isLoading, acSubmitting, agentsData>>

StopResolved(task) ==
  /\ task.kind = "onStopAgent"
  /\ acResult' = Banner(TRUE, "Agent stopped successfully")
  /\ agentRunning' = FALSE
  /\ agentsData' = NoAgentsData
  /\ DropTask(task)
  /\ UNCHANGED <<userIdProp, userIdChanged, collections, isLoading, acSubmitting>>

\* the failure of the stop is taken for a stop
StopRejected_clearsFlag(task) ==
  /\ task.kind = "onStopAgent"
  /\ acResult' = [isNull |-> FALSE, loading |-> FALSE, success |-> FALSE,
                  message |-> GatewayError("stopAgent",
                                           StopRequest(task.userId)).message]
  /\ agentRunning' = FALSE
  /\ DropTask(task)
  /\ UNCHANGED <<userIdProp, userIdChanged, collections, isLoading, acSubmitting, agentsData>>

\* the catch block of onStopAgent: lines 199-205
StopRejected(task) ==
  /\ task.kind = "onStopAgent"
  /\ acResult' = [isNull |-> FALSE, loading |-> FALSE, success |-> FALSE,
                  message |-> GatewayError("stopAgent",
                                           StopRequest(task.userId)).message]
  /\ DropTask(task)
  /\ UNCHANGED <<userIdProp, userIdChanged, collections, agentRunning, isLoading, acSubmitting, agentsData>>

\* the TEST API button's handler up to its await
OnTestApi ==
  /\ ~isLoading
  /\ BagCardinality(acTasks) < MaxTasks
  /\ acResult' = LoadingBanner("Testing API...")
  /\ AddTask([kind |-> "testApi", userId |-> userIdProp, awaiting |-> "testStartAgent"])
  /\ UNCHANGED <<userIdProp, userIdChanged, collections, agentRunning, isLoading, acSubmitting, agentsData>>

TestResolved(task) ==
  /\ task.kind = "testApi"
  /\ acResult' = Banner(TRUE, "API test successful")
  /\ DropTask(task)
  /\ UNCHANGED <<userIdProp, userIdChanged, collections, agentRunning, isLoading, acSubmitting, agentsData>>

TestRejected(task) ==
  /\ task.kind = "testApi"
  /\ acResult' = ErrorBanner("API test failed",
                   GatewayError("testStartAgent",
                                StartRequest(MinimalPayload(task.userId))))
  /\ DropTask(task)
  /\ UNCHANGED <<userIdProp, userIdChanged, collections, agentRunning, isLoading, acSubmitting, agentsData>>

----------------------------------------------------------------------------
(* Specification of the AgentControl widget *)

AcTasks == BagToSet(acTasks)

\* the widget as mounted by Home with its initial user id, its effect run
ControlInit ==
  /\ userIdProp = InitialUserId
  /\ userIdChanged = FALSE
  /\ collections = <<>>
  /\ agentRunning = FALSE
  /\ isLoading = TRUE
  /\ acResult = NullResult
  /\ acSubmitting = FALSE
  /\ acTasks = SetToBag({[kind |-> "fetchData", userId |-> InitialUserId,
                          awaiting |-> "listCollections"]})
  /\ agentsData = NoAgentsData

AcOther == UNCHANGED <<gwVars, cfgVars, dbgVars, duVars, clVars>>

AcChangeUserId == (\E uid \in UserIds : ChangeUserId(uid)) /\ AcOther

AcCollectionsResolved ==
  /\ \E task \in AcTasks, c \in CollectionLists :
       FetchCollectionsResolved(task, [collections |-> c])
  /\ AcOther

AcAgentsResolved ==
  /\ \E task \in AcTasks, a \in AgentLists :
       FetchAgentsResolved(task, [agents |-> a])
  /\ AcOther

AcFetchRejected == (\E task \in AcTasks : FetchRejected(task)) /\ AcOther

AcStartSubmit == OnStartAgent /\ AcOther

AcStartResolved ==
  /\ \E task \in AcTasks, body \in SuccessBodies("startAgent") :
       StartResolved(task, body)
  /\ AcOther

AcStartRejected == (\E task \in AcTasks : StartRejected(task)) /\ AcOther

AcStopClick == OnStopAgent /\ AcOther

AcStopResolved == (\E task \in AcTasks : StopResolved(task)) /\ AcOther

AcStopRejected == (\E task \in AcTasks : StopRejected(task)) /\ AcOther

AcTestClick == OnTestApi /\ AcOther

AcTestResolved == (\E task \in AcTasks : TestResolved(task)) /\ AcOther

AcTestRejected == (\E task \in AcTasks : TestRejected(task)) /\ AcOther

ControlNext ==
  \/ AcChangeUserId
  \/ AcCollectionsResolved
  \/ AcAgentsResolved
  \/ AcFetchRejected
  \/ AcStartSubmit
  \/ AcStartResolved
  \/ AcStartRejected
  \/ AcStopClick
  \/ AcStopResolved
  \/ AcStopRejected
  \/ AcTestClick
  \/ AcTestResolved
  \/ AcTestRejected

ControlSpecInit ==
  GatewayIdle /\ ConfigIdle /\ DebugIdle /\ ControlInit /\ UploadInit
  /\ CollectionsIdle

SpecControl == ControlSpecInit /\ [][ControlNext]_vars

\* C9: the running flag AgentControl derives from a listAgents result is
\* true iff the list holds at least one descriptor whose user_id is the user
\* id the load was started for; no match gives false, several give true.
C9_RunningIffMatch ==
  agentsData.has =>
    (agentRunning <=>
       \E i \in 1..Len(agentsData.agents) :
         agentsData.agents[i].user_id = agentsData.userId)

C9_Witness ==
  /\ agentsData.has
  /\ Len(agentsData.agents) = 2
  /\ agentsData.agents[1].user_id # agentsData.userId
  /\ agentsData.agents[2].user_id = agentsData.userId
  /\ agentRunning

\* the banner AgentControl renders for a result: part_002 304-313
BannerShown(res) == ~res.isNull /\ ~res.loading

\* C14: every gateway call AgentControl made ends with the widget showing a
\* message: a call that rejected (a call of the initial load included) leaves
\* a failure message shown, and a start, stop or test call that resolved
\* leaves a success message shown.
C14_NoSilentFailure ==
  [][/\ (AcFetchRejected \/ AcStartRejected \/ AcStopRejected \/ AcTestRejected)
          => (BannerShown(acResult') /\ acResult'.success = FALSE)
     /\ (AcStartResolved \/ AcStopResolved \/ AcTestResolved)
          => (BannerShown(acResult') /\ acResult'.success = TRUE)]_vars

\* the handler awaits a call that changes the user's agent: a POST to
\* /start-agent (startAgent, testStartAgent) or to /stop-agent/{userId}
Mutating(task) == task.awaiting \in {"startAgent", "stopAgent", "testStartAgent"}

\* C15: at no time are two start-agent or stop-agent calls for the same
\* user id in flight together, under any interleaving of clicks and
\* response arrivals.
C15_NoConcurrentMutation ==
  \A task \in AcTasks :
    Mutating(task) =>
      /\ CopiesIn(task, acTasks) = 1
      /\ \A other \in AcTasks :
           (Mutating(other) /\ other.userId = task.userId) => other = task

\* two stopAgent calls for one user id are in flight
TwoStopsInFlight ==
  \E task \in AcTasks : task.awaiting = "stopAgent" /\ CopiesIn(task, acTasks) = 2

\* a list scan of the load settles, finding a match for its user id or none
ScanSettles(found) ==
  /\ \E task \in AcTasks, a \in AgentLists :
       /\ found <=> (\E i \in 1..Len(a) : a[i].user_id = task.userId)
       /\ FetchAgentsResolved(task, [agents |-> a])
  /\ AcOther

\* a start, stop or test call that rejected leaves agentRunning as it was
\* and sets a result with success false
RejectionKeepsFlag ==
  (AcStartRejected \/ AcStopRejected \/ AcTestRejected) =>
    /\ agentRunning' = agentRunning
    /\ BannerShown(acResult')
    /\ acResult'.success = FALSE

\* C19 as stated: agentRunning becomes true only when a startAgent call
\* resolves, and false only when a stopAgent call resolves or a list scan
\* finds no match; a rejected start, stop or test call leaves it unchanged
\* and sets a result with success false.
C19_AsStated ==
  [][/\ (~agentRunning /\ agentRunning') => AcStartResolved
     /\ (agentRunning /\ ~agentRunning') => (AcStopResolved \/ ScanSettles(FALSE))
     /\ RejectionKeepsFlag]_vars

\* C19 amended: agentRunning becomes true only when a startAgent call
\* resolves or a list scan finds a match, and false only when a stopAgent
\* call resolves or a list scan finds no match; a rejected start, stop or
\* test call leaves it unchanged and sets a result with success false.
C19_FlagChanges ==
  [][/\ (~agentRunning /\ agentRunning') => (AcStartResolved \/ ScanSettles(TRUE))
     /\ (agentRunning /\ ~agentRunning') => (AcStopResolved \/ ScanSettles(FALSE))
     /\ RejectionKeepsFlag]_vars

C19_Witness ==
  /\ agentRunning
  /\ acTasks = EmptyBag
  /\ BannerShown(acResult)
  /\ acResult.success = FALSE
  /\ Includes(acResult.message, <<"Stop", "Agent">>)

----------------------------------------------------------------------------
(* AgentControl's load against an agent manager whose agents do not change *)

\* the agents the agent manager runs: one for 'test_user', none for ''
RunningAgents ==
  << [user_id |-> "test_user", agent_type |-> "voice", running_time |-> 5] >>

\* listAgents resolves with the agent manager's list
AcAgentsListed ==
  /\ \E task \in AcTasks : FetchAgentsResolved(task, [agents |-> RunningAgents])
  /\ AcOther

LoadNext ==
  \/ AcChangeUserId
  \/ AcCollectionsResolved
  \/ AcAgentsListed
  \/ AcFetchRejected

SpecLoad == ControlSpecInit /\ [][LoadNext]_vars

\* C18: when the user id was changed, every load has settled and no start
\* or stop was issued, agentRunning equals whether the agent list holds a
\* descriptor for the current user id, also when listCollections rejected
\* during the load and when the previous user id had a running agent.
C18_RunningIsCurrent ==
  (userIdChanged /\ acTasks = EmptyBag) =>
    (agentRunning <=>
       \E i \in 1..Len(RunningAgents) : RunningAgents[i].user_id = userIdProp)

----------------------------------------------------------------------------
(* CollectionsList: CollectionsList.tsx 5-35 *)

MaxLoads == 2

\* the user ids typed into Home's field while CollectionsList is shown
TypedUserIds == UserIds \cup {"other_user"}

\* the collections the document service holds for a user id
CollectionsOf(u) ==
  << [name |-> u, path |-> "/collections/docs", is_default |-> TRUE] >>

\* the bodies listCollections(u) may resolve with
CollectionsBodies(u) ==
  { [collections |-> <<>>], [collections |-> CollectionsOf(u)] }

\* the effect of lines 10-28 up to its await or its early return
FetchCollectionsStart(uid) ==
  IF uid = ""
    THEN UNCHANGED <<clLoading, clTasks>>
    ELSE /\ clLoading' = TRUE
         /\ clTasks' = clTasks (+) SetToBag({[userId |-> uid]})

\* listCollections resolved: lines 17-18, then the finally block
CollectionsResolved(task, data) ==
  /\ clCollections' = data.collections
  /\ clShownFor' = Str(task.userId)
  /\ clError' = Null
  /\ clLoading' = FALSE
  /\ clTasks' = clTasks (-) SetToBag({task})

\* the loading flag is cleared in the try block only
CollectionsRejected_noFinally(task) ==
  /\ clError' = Str("Failed to load collections")
  /\ clTasks' = clTasks (-) SetToBag({task})
  /\ UNCHANGED <<clCollections, clShownFor, clLoading>>

\* listCollections rejected: the catch block, then the finally block
CollectionsRejected(task) ==
  /\ clError' = Str("Failed to load collections")
  /\ clLoading' = FALSE
  /\ clTasks' = clTasks (-) SetToBag({task})
  /\ UNCHANGED <<clCollections, clShownFor>>

\* the widget as mounted by Home with its initial user id, its effect run
CollectionsInit ==
  /\ clCollections = <<>>
  /\ clLoading = TRUE
  /\ clError = Null
  /\ clShownFor = Undefined
  /\ clTasks = IF InitialUserId = "" THEN EmptyBag
               ELSE SetToBag({[userId |-> InitialUserId]})

ClTasks == BagToSet(clTasks)

\* Home.handleUserIdChange: the new user id re-runs the effect
ClChangeUserId ==
  /\ \E uid \in TypedUserIds :
       /\ uid # userIdProp
       /\ BagCardinality(clTasks) < MaxLoads
       /\ userIdProp' = uid
       /\ userIdChanged' = TRUE
       /\ FetchCollectionsStart(uid)
  /\ UNCHANGED <<clCollections, clError, clShownFor>>
  /\ UNCHANGED <<collections, agentRunning, isLoading, acResult, acSubmitting,
                 acTasks, agentsData>>
  /\ UNCHANGED <<gwVars, cfgVars, dbgVars, duVars>>

ClLoadResolved ==
  /\ \E task \in ClTasks :
       \E body \in CollectionsBodies(task.userId) :
         CollectionsResolved(task, body)
  /\ UNCHANGED <<gwVars, cfgVars, dbgVars, acVars, duVars>>

ClLoadRejected ==
  /\ \E task \in ClTasks : CollectionsRejected(task)
  /\ UNCHANGED <<gwVars, cfgVars, dbgVars, acVars, duVars>>

CollectionsNext == ClChangeUserId \/ ClLoadResolved \/ ClLoadRejected

CollectionsSpecInit ==
  GatewayIdle /\ ConfigIdle /\ DebugIdle /\ ControlIdle /\ UploadInit
  /\ CollectionsInit

SpecCollections == CollectionsSpecInit /\ [][CollectionsNext]_vars

\* every call that was issued settles
SpecCollectionsFair ==
  SpecCollections /\ WF_vars(ClLoadResolved \/ ClLoadRejected)

\* the list of collections is what the widget renders: lines 30-72
CollectionsShown == ~clLoading /\ clError = Null

\* C16: once every listCollections call in flight has settled, the
\* collections CollectionsList shows for a user id it loads collections for
\* are the ones returned for the current user id, whatever the order the
\* responses arrived in.
C16_ShowsCurrentUser ==
  (clTasks = EmptyBag /\ CollectionsShown /\ userIdProp # "") =>
    clShownFor = Str(userIdProp)

----------------------------------------------------------------------------
(* FileInput and DocumentUpload: part_003 11-21, part_002 350-395 *)

MaxUploads == 2

\* the File objects a user can pick
PdfFile == [name |-> "a.pdf", size |-> 1200]

TxtFile == [name |-> "b.txt", size |-> 40]

\* e.target.files of a change event; empty when the dialog is cancelled
FileSelections == { <<>>, <<PdfFile>>, <<TxtFile, PdfFile>> }

FormCollectionNames == { Str(""), Str("Docs") }

\* fileArray.map(file => file.name)
NamesOf(files) == [i \in 1..Len(files) |-> files[i].name]

\* FileInput.handleFileChange, with DocumentUpload.handleFilesSelected
HandleFileChange(files) ==
  IF Len(files) = 0
    THEN UNCHANGED <<selectedFiles, fileNames>>
    ELSE /\ fileNames' = NamesOf(files)
         /\ selectedFiles' = files

ValidationResult ==
  [isNull |-> FALSE, success |-> FALSE,
   message |-> <<"Please select at least one document to upload">>]

\* the guard never stops a submit
NothingSelected_never(files) == FALSE

\* selectedFiles.length === 0
NothingSelected(files) == Len(files) = 0

\* Object.assign(selectedFiles, {item, length}) as unknown as FileList
AsFileList(files) == files

\* DocumentUpload.onSubmit up to its await or its early return
OnSubmit(collectionName) ==
  IF NothingSelected(selectedFiles)
    THEN /\ duResult' = ValidationResult
         /\ duSubmitting' = FALSE
         /\ UNCHANGED <<selectedFiles, duTasks>>
    ELSE /\ duTasks' = duTasks (+)
              SetToBag({[userId |-> userIdProp, files |-> AsFileList(selectedFiles),
                         collectionName |-> collectionName]})
         /\ duSubmitting' = TRUE
         /\ UNCHANGED <<selectedFiles, duResult>>

\* the submit button is enabled: part_002 430
SubmitEnabled == ~duSubmitting /\ Len(selectedFiles) # 0

\* uploadDocuments resolved: lines 378-380
UploadResolved(task, data) ==
  /\ duResult' = [isNull |-> FALSE, success |-> TRUE, message |-> <<data.message>>]
  /\ selectedFiles' = <<>>
  /\ duSubmitting' = FALSE
  /\ duTasks' = duTasks (-) SetToBag({task})
  /\ UNCHANGED fileNames

\* uploadDocuments rejected: the catch block of lines 382-390
UploadRejected(task) ==
  /\ duResult' =
       [isNull |-> FALSE, success |-> FALSE,
        message |-> GatewayError("uploadDocuments",
                      UploadRequest(task.userId, NamesOf(task.files),
                                    task.collectionName)).message]
  /\ duSubmitting' = FALSE
  /\ duTasks' = duTasks (-) SetToBag({task})
  /\ UNCHANGED <<selectedFiles, fileNames>>

DuOther == UNCHANGED <<gwVars, cfgVars, dbgVars, acVars, clVars>>

DuTasks == BagToSet(duTasks)

DuFileChange ==
  /\ \E files \in FileSelections : HandleFileChange(files)
  /\ UNCHANGED <<duResult, duSubmitting, duTasks>>
  /\ DuOther

\* a click on the enabled submit button
DuClickSubmit ==
  /\ SubmitEnabled
  /\ BagCardinality(duTasks) < MaxUploads
  /\ \E c \in FormCollectionNames : OnSubmit(c)
  /\ UNCHANGED fileNames
  /\ DuOther

\* a submit event that does not come from the button (form.requestSubmit())
DuSubmitEvent ==
  /\ ~SubmitEnabled
  /\ BagCardinality(duTasks) < MaxUploads
  /\ \E c \in FormCollectionNames : OnSubmit(c)
  /\ UNCHANGED fileNames
  /\ DuOther

DuUploadResolved ==
  /\ \E task \in DuTasks :
       \E body \in SuccessBodies("uploadDocuments")
                     \cup {MockUploadResponse(task.userId, task.files)} :
         UploadResolved(task, body)
  /\ DuOther

DuUploadRejected == (\E task \in DuTasks : UploadRejected(task)) /\ DuOther

UploadNext ==
  \/ DuFileChange
  \/ DuClickSubmit
  \/ DuSubmitEvent
  \/ DuUploadResolved
  \/ DuUploadRejected

UploadSpecInit ==
  GatewayIdle /\ ConfigIdle /\ DebugIdle /\ ControlIdle /\ UploadInit
  /\ CollectionsIdle

SpecUpload == UploadSpecInit /\ [][UploadNext]_vars

\* C10: after any selections, submits and upload outcomes, no upload is
\* under way with an empty file list, and a submit made while the selection
\* is empty sets the validation message 'Please select at least one
\* document to upload' and dispatches no request.
C10_EmptyNeverUploads ==
  [][/\ \A task \in BagToSet(duTasks') : Len(task.files) # 0
     /\ ((DuClickSubmit \/ DuSubmitEvent) /\ Len(selectedFiles) = 0) =>
          (duTasks' = duTasks /\ duResult' = ValidationResult)]_vars

C10_Witness ==
  /\ fileNames # <<>>
  /\ selectedFiles = <<>>
  /\ duResult = ValidationResult
  /\ duTasks = EmptyBag

\* C21: after any sequence of file selections, cancelled selections, submits
\* and upload outcomes, the names FileInput displays are the names of the
\* files DocumentUpload holds as selected, in the same order; both are empty
\* after a successful upload.
C21_NamesMatchSelection == fileNames = NamesOf(selectedFiles)

\* the state a successful upload leaves: the selection is cleared and the
\* success message shown while FileInput still lists the uploaded files
StaleNamesAfterUpload ==
  /\ ~duResult.isNull
  /\ duResult.success
  /\ selectedFiles = <<>>
  /\ fileNames # <<>>

\* the part that holds: while DocumentUpload holds a selection, FileInput
\* displays its names
NamesMatchWhileSelected ==
  selectedFiles # <<>> => fileNames = NamesOf(selectedFiles)

----------------------------------------------------------------------------
(* The failure objects debugApiError is applied to *)

Contexts ==
  { <<"Document", "Upload">>, <<"Agent", "Configuration">>,
    <<"List", "Collections">>, <<"Start", "Agent">>, <<"Stop", "Agent">>,
    <<"List", "Agents">>, <<"API", "Test">> }

Messages ==
  { Absent,
    Some(<<>>),
    Some(<<"Network", "Error">>),
    Some(<<"timeout", "exceeded">>),
    Some(<<"Request", "failed", "with", "status", "code">>),
    Some(<<"blocked", "by", "CORS", "policy">>),
    Some(<<"cross-origin", "request", "blocked">>),
    Some(<<"Server", "Response", ":">>),
    Some(<<"Using", "mock", "data">>) }

Statuses == {0, 403, 404, 500}

StatusTexts == { Absent, Some(<<"Internal", "Server", "Error">>) }

ResponseDatas ==
  { <<>>,
    << <<"detail", <<"Not", "allowed">> >> >>,
    << <<"detail", <<"CORS", "POLICY", "ERROR", "DETECTED">> >>,
       <<"code", <<"E1">> >> >> }

Responses ==
  {Absent} \cup
  { Some([status |-> s, statusText |-> t, data |-> d]) :
      s \in Statuses, t \in StatusTexts, d \in ResponseDatas }

RequestConfigs ==
  { Absent,
    Some([baseURL |-> Some(agentManagerApiUrl), url |-> Some(<<"/start-agent">>),
          method |-> Some(<<"post">>)]),
    Some([baseURL |-> Some(documentApiUrl),
          url |-> Some(<<"/upload/", "CORS", "POLICY", "ERROR", "DETECTED">>),
          method |-> Some(<<"post">>)]),
    Some([baseURL |-> Absent, url |-> Absent, method |-> Absent]) }

FailureObjects ==
  [response : Responses, request : BOOLEAN, message : Messages,
   config : RequestConfigs]

----------------------------------------------------------------------------
(* Specification of debugApiError alone *)

DebugInit ==
  /\ GatewayIdle
  /\ ConfigIdle
  /\ CollectionsIdle
  /\ ControlIdle
  /\ UploadInit
  /\ error \in FailureObjects
  /\ context \in Contexts
  /\ debugInfo = NoText
  /\ errorDebug = NotRendered

\* the call debugApiError(error, context)
DebugCall ==
  /\ debugInfo = NoText
  /\ debugInfo' = debugApiError(error, context)
  /\ UNCHANGED <<error, context, errorDebug>>
  /\ UNCHANGED <<gwVars, cfgVars, acVars, duVars, clVars>>

DebugNext == DebugCall

SpecDebug == DebugInit /\ [][DebugNext]_vars

----------------------------------------------------------------------------
(* ErrorDebug: part_001 44-47, applied to the Error the gateway throws *)

isCorsError(message) == Includes(message, <<"CORS", "POLICY", "ERROR">>)

isNetworkError(message) ==
  \/ Includes(message, <<"Network", "Error">>)
  \/ Includes(message, <<"Request", "sent", "but", "no", "response">>)

isServerError(message) ==
  Includes(message, <<"Server", "Response">>) /\ ~isCorsError(message)

\* ErrorDebug is rendered with error.message = the diagnostic
ErrorDebugRender ==
  /\ debugInfo # NoText
  /\ errorDebug = NotRendered
  /\ errorDebug' = [rendered |-> TRUE,
                    isCorsError |-> isCorsError(debugInfo),
                    isNetworkError |-> isNetworkError(debugInfo),
                    isServerError |-> isServerError(debugInfo)]
  /\ UNCHANGED <<error, context, debugInfo>>
  /\ UNCHANGED <<gwVars, cfgVars, acVars, duVars, clVars>>

ErrorDebugNext == DebugCall \/ ErrorDebugRender

SpecErrorDebug == DebugInit /\ [][ErrorDebugNext]_vars

\* the category debugApiError gave the failure
GatewayAddedMarker == error.response.has /\ corsError(error)

GatewayNetworkClass == ~error.response.has /\ error.request

GatewayServerClass == error.response.has

\* C20: for every diagnostic of debugApiError, ErrorDebug's isCorsError is
\* true iff the gateway added the cross-origin marker, isNetworkError iff
\* the gateway classified the failure as a no-response network error,
\* isServerError iff it classified it as a server-responded error without
\* the marker, and at most one of the three flags is true.
C20_SameCategory ==
  errorDebug.rendered =>
    /\ errorDebug.isCorsError <=> GatewayAddedMarker
    /\ errorDebug.isNetworkError <=> GatewayNetworkClass
    /\ errorDebug.isServerError <=> (GatewayServerClass /\ ~GatewayAddedMarker)
    /\ ~(errorDebug.isCorsError /\ errorDebug.isNetworkError)
    /\ ~(errorDebug.isCorsError /\ errorDebug.isServerError)
    /\ ~(errorDebug.isNetworkError /\ errorDebug.isServerError)

\* a request that could not be set up, reported as 'Network Error'
SetupFailureShownAsNetwork ==
  /\ errorDebug.rendered
  /\ ~error.response.has
  /\ ~error.request
  /\ error.message = Some(<<"Network", "Error">>)
  /\ errorDebug.isNetworkError

----------------------------------------------------------------------------
(* What a reader of the diagnostic looks for *)

CorsMarker == <<"CORS", "POLICY", "ERROR", "DETECTED">>

ServerHeader == <<NL, "Server", "Response", ":", NL>>

NetworkHeader == <<NL, "Network", "Error", ":", NL>>

SetupHeader == <<NL, "Request", "Setup", "Error", ":", NL>>

ConnectionHeader == <<NL, "Connection", "Details", ":", NL>>

EnvironmentHeader == <<NL, "Environment", "Info", ":", NL>>

DebugDone == debugInfo # NoText

\* the failure message mentions cross-origin restrictions
MessageMentionsCors ==
  OptIncludes(error.message, <<"CORS">>) \/ OptIncludes(error.message, <<"cross-origin">>)

\* text echoed into the diagnostic (the request URL, the status text, the
\* response data) already carries the marker
EchoCarriesMarker ==
  \/ Includes(ConnectionDetails(error), CorsMarker)
  \/ /\ error.response.has
     /\ \/ Includes(JSONStringify(error.response.val.data), CorsMarker)
        \/ OptIncludes(error.response.val.statusText, CorsMarker)

\* C5 as stated: with a response, the diagnostic includes the cross-origin
\* marker when the status is 403 and does not include it when the status is
\* 500, for every failure message.
C5_AsStated ==
  (DebugDone /\ error.response.has) =>
    /\ (error.response.val.status = 403 => Includes(debugInfo, CorsMarker))
    /\ (error.response.val.status = 500 => ~Includes(debugInfo, CorsMarker))

\* C5 amended: with a response, the diagnostic includes the cross-origin
\* marker when the status is 403; when the status is 500 it includes it
\* exactly when the failure message contains 'CORS' or 'cross-origin' (or
\* the echoed request URL, status text or response data itself carries the
\* marker text).
C5_CorsMarker ==
  (DebugDone /\ error.response.has) =>
    /\ (error.response.val.status = 403 => Includes(debugInfo, CorsMarker))
    /\ (error.response.val.status = 500 =>
          (Includes(debugInfo, CorsMarker) <=>
             (MessageMentionsCors \/ EchoCarriesMarker)))

C5_Witness ==
  /\ DebugDone
  /\ error.response.has
  /\ error.response.val.status = 500
  /\ error.message = Some(<<"Request", "failed", "with", "status", "code">>)
  /\ error.response.val.data # <<>>
  /\ ~Includes(debugInfo, CorsMarker)

\* C6: a failure with no response but a request yields the 'Network Error:'
\* section and neither the 'Server Response:' nor the 'Request Setup Error:'
\* section, whatever the failure message is.
C6_NetworkClass ==
  (DebugDone /\ ~error.response.has /\ error.request) =>
    /\ Includes(debugInfo, NetworkHeader)
    /\ ~Includes(debugInfo, ServerHeader)
    /\ ~Includes(debugInfo, SetupHeader)

C6_Witness ==
  /\ DebugDone
  /\ ~error.response.has
  /\ error.request
  /\ error.message = Some(<<"Server", "Response", ":">>)
  /\ Includes(debugInfo, NetworkHeader)

\* C7: every diagnostic holds exactly one category section: 'Server
\* Response:' iff a response is present, 'Network Error:' iff there is no
\* response but a request, 'Request Setup Error:' iff neither; 'Connection
\* Details:' and 'Environment Info:' are always present.
C7_OneCategory ==
  DebugDone =>
    /\ Includes(debugInfo, ServerHeader) <=> error.response.has
    /\ Includes(debugInfo, NetworkHeader) <=> (~error.response.has /\ error.request)
    /\ Includes(debugInfo, SetupHeader) <=> (~error.response.has /\ ~error.request)
    /\ Includes(debugInfo, ConnectionHeader)
    /\ Includes(debugInfo, EnvironmentHeader)

C7_Witness ==
  /\ DebugDone
  /\ error.response.has
  /\ error.request
  /\ Includes(debugInfo, ServerHeader)
  /\ ~Includes(debugInfo, NetworkHeader)

====
